---- MODULE Spec2Model ----
(***************************************************************************)
(* Model of satpy/readers/ghi_l1.py: the FY-4B GHI Level-1 HDF reader.     *)
(*                                                                         *)
(* A DataArray is a record [data, attrs, dims, chunks, err]: data is the    *)
(* sequence of element values (the array flattened), chunks the place the  *)
(* array engine splits it into blocks, attrs the attribute dictionary      *)
(* and err the exception that evaluating the lazy array raises ("" when    *)
(* it evaluates).  Dictionaries are functions over their keys.  Numbers    *)
(* are integers; NaN is a value of its own that compares false with        *)
(* everything.                                                             *)
(***************************************************************************)
EXTENDS Integers, Sequences, FiniteSets, TLC

VARIABLES
    fh,          \* the file handler: the content of the file it reads
    descriptor,  \* the dataset descriptor (ds_info) the caller holds and reuses
    out,         \* what the last get_dataset call did
    prev,        \* what the get_dataset call before it did
    area         \* what the last get_area_def call did

vars == <<fh, descriptor, out, prev, area>>

----------------------------------------------------------------------------
(* Bounds of the model *)

\* longest calibration lookup table in a file
MaxLutLen == 2
\* number of elements of a raw array
ArrLen == 2

\* largest digital number of a raw array: two past the longest table
MaxDN == MaxLutLen + 2

----------------------------------------------------------------------------
(* Python and numpy values *)

\* np.nan
NaN == -999999

\* the absent calibration (ds_info.get('calibration') of a descriptor without one)
None == "None"

Get(d, k, default) == IF k \in DOMAIN d THEN d[k] ELSE default

SetItem(d, k, v) == [x \in DOMAIN d \cup {k} |-> IF x = k THEN v ELSE d[x]]

Update(d, e) == [x \in DOMAIN d \cup DOMAIN e |-> IF x \in DOMAIN e THEN e[x] ELSE d[x]]

Pop(d, k) == [x \in DOMAIN d \ {k} |-> d[x]]

Min2(p) == IF p[1] <= p[2] THEN p[1] ELSE p[2]

Max2(p) == IF p[1] >= p[2] THEN p[1] ELSE p[2]

\* the elementwise comparisons of numpy: every comparison with NaN is false
InRange(v, lo, hi) == v # NaN /\ v >= lo /\ v <= hi

\* DataArray.where(cond): the elements where cond is false become NaN
Where(seq, lo, hi) == [i \in DOMAIN seq |-> IF InRange(seq[i], lo, hi) THEN seq[i] ELSE NaN]

\* int() of the two trailing characters of a storage key
ParseInt(s) ==
    CASE s = "01" -> 1
      [] s = "02" -> 2
      [] s = "07" -> 7

----------------------------------------------------------------------------
(* Module constants *)

RESOLUTION_LIST == <<250, 500, 1000, 2000>>
\* the offsets are held in units of 0.5
_COFF_list == <<43965, 21983, 10991, 5495>>
_CFAC_list == <<163730198, 81865099, 40932549, 20466274>>
_LOFF_list == <<43965, 21983, 10991, 5495>>
_LFAC_list == <<163730198, 81865099, 40932549, 20466274>>

PLATFORM_NAMES == [FY4B |-> "FY-4B", FY4C |-> "FY-4C"]

CHANS_ID == "NOMChannel"
SAT_ID == "NOMSatellite"
SUN_ID == "NOMSun"

----------------------------------------------------------------------------
(* scale and apply_lut *)

\* scale without ref.clip(min=0)
scale_noclip(dn, slope, offset) ==
    [data  |-> [i \in DOMAIN dn.data |-> dn.data[i] * slope + offset],
     attrs |-> dn.attrs,
     dims  |-> dn.dims,
     chunks |-> dn.chunks,
     err   |-> dn.err]

\* ref = dn * slope + offset; ref.clip(min=0); ref.attrs = dn.attrs
scale(dn, slope, offset) ==
    [data  |-> [i \in DOMAIN dn.data |->
                   LET ref == dn.data[i] * slope + offset
                   IN  IF ref < 0 THEN 0 ELSE ref],
     attrs |-> dn.attrs,
     dims  |-> dn.dims,
     chunks |-> dn.chunks,
     err   |-> dn.err]

\* lut[block] of one block: numpy raises IndexError for the whole block when
\* one index is outside the table (the indices here are never negative)
_getitem(block, lut) ==
    IF \E i \in DOMAIN block : block[i] > Len(lut) - 1
    THEN [err |-> "IndexError", val |-> <<>>]
    ELSE [err |-> "", val |-> [i \in DOMAIN block |-> lut[block[i] + 1]]]

\* data.data.map_blocks(_getitem, lut) with the array split into the blocks
\* 1..chunk and chunk+1..Len: evaluating the result raises when a block does
map_blocks(arr, chunk, lut) ==
    LET b1 == _getitem(SubSeq(arr, 1, chunk), lut)
        b2 == _getitem(SubSeq(arr, chunk + 1, Len(arr)), lut)
    IN  IF b1.err # "" THEN b1
        ELSE IF b2.err # "" THEN b2
        ELSE [err |-> "", val |-> b1.val \o b2.val]

\* apply_lut: the result, and idx, the indices left in data.data for the gather
apply_lut(data, lut) ==
    LET lutx == Append(lut, NaN)
        idx  == [i \in DOMAIN data.data |->
                    IF data.data[i] > Len(lutx) THEN Len(lutx) - 1 ELSE data.data[i]]
        res  == map_blocks(idx, data.chunks, lutx)
    IN  [data   |-> res.val,
         attrs  |-> data.attrs,
         dims   |-> data.dims,
         chunks |-> data.chunks,
         err    |-> res.err,
         idx    |-> idx]

----------------------------------------------------------------------------
(* HDF_GHI_L1 *)

\* self.get(key) and self[key]: the store hands out the content of the file
get(self, key) == self.content[key]

cal_coef == <<"Calibration", "CALIBRATION_COEF(SCALE+OFFSET)">>

\* the row <<slope, offset>> of the coefficient table a channel is scaled
\* with: row 0 of a table of one row
coef_row(self, channel_index) ==
    IF Len(get(self, cal_coef)) = 1
    THEN get(self, cal_coef)[1]
    ELSE get(self, cal_coef)[channel_index + 1]

\* data *= 100 on the scaled array
times_100(data) == [data EXCEPT !.data = [i \in DOMAIN @ |-> @[i] * 100]]

\* ds_info['valid_range'] of a reflectance: the array's valid_range scaled
reflectance_range(attrs) ==
    << (attrs["valid_range"][1] * attrs["scale_factor"] + attrs["add_offset"]) * 100,
       (attrs["valid_range"][2] * attrs["scale_factor"] + attrs["add_offset"]) * 100 >>

\* scale_to_reflectance with the valid_range recomputed from the range the
\* descriptor already holds, when it holds one
scale_to_reflectance_stale(data, ds_info) ==
    [data    |-> times_100(scale(data, data.attrs["scale_factor"], data.attrs["add_offset"])),
     ds_info |-> SetItem(ds_info, "valid_range",
                         reflectance_range(SetItem(data.attrs, "valid_range",
                             Get(ds_info, "valid_range", data.attrs["valid_range"])))),
     idx     |-> <<>>]

\* calibrate_to_reflectance once scale_factor and add_offset are in data.attrs
scale_to_reflectance(data, ds_info) ==
    [data    |-> times_100(scale(data, data.attrs["scale_factor"], data.attrs["add_offset"])),
     ds_info |-> SetItem(ds_info, "valid_range", reflectance_range(data.attrs)),
     idx     |-> <<>>]

\* the result: the calibrated array and the descriptor as the call leaves it
calibrate_to_reflectance(self, data, channel_index, ds_info) ==
    scale_to_reflectance(
        [data EXCEPT !.attrs = SetItem(SetItem(@, "scale_factor", coef_row(self, channel_index)[1]),
                                       "add_offset", coef_row(self, channel_index)[2])],
        ds_info)

\* calibrate_to_bt once the lookup table is fetched
lut_to_bt(res, lut, ds_info) ==
    [data    |-> [data |-> res.data, attrs |-> res.attrs, dims |-> res.dims,
                  chunks |-> res.chunks, err |-> res.err],
     ds_info |-> SetItem(ds_info, "valid_range", lut.attrs["valid_range"]),
     idx     |-> res.idx]

calibrate_to_bt(self, data, ds_info, ds_name) ==
    lut_to_bt(apply_lut(data, get(self, <<"Calibration", Get(ds_info, "lut_key", ds_name)>>).data),
              get(self, <<"Calibration", Get(ds_info, "lut_key", ds_name)>>),
              ds_info)

\* the branch of calibrate for a calibration kind: the array and the
\* descriptor it leaves (radiance raises, see range_limits)
transform(self, data, ds_info, ds_name, file_key, calibration) ==
    CASE calibration \in {"counts", None} ->
             [data    |-> [data EXCEPT !.attrs = SetItem(@, "units", ds_info["units"])],
              ds_info |-> SetItem(ds_info, "valid_range", data.attrs["valid_range"]),
              idx     |-> <<>>]
      [] calibration = "reflectance" ->
             calibrate_to_reflectance(self, data, ParseInt(file_key[3]) - 1, ds_info)
      [] calibration = "brightness_temperature" ->
             calibrate_to_bt(self, data, ds_info, ds_name)
      [] OTHER ->
             [data |-> data, ds_info |-> ds_info, idx |-> <<>>]

\* limited with the range limits applied to counts as well
limited_all(d, calibration) ==
    [d EXCEPT !.data = Where(@, Min2(d.attrs["valid_range"]), Max2(d.attrs["valid_range"]))]

\* the range limits of calibrate on d, the array of the transform: the limits
\* are those of the array's own valid_range attribute
limited(d, calibration) ==
    IF calibration # "counts"
    THEN [d EXCEPT !.data = Where(@, Min2(d.attrs["valid_range"]), Max2(d.attrs["valid_range"]))]
    ELSE [d EXCEPT !.attrs = SetItem(@, "_FillValue", d.attrs["FillValue"])]

\* range_limits without the raise for radiance: the array passes through
range_limits_silent(data, ds_info, calibration, tr) ==
    [raised |-> "", data |-> limited(tr.data, calibration), ds_info |-> tr.ds_info,
     cal |-> tr.data, idx |-> tr.idx]

\* the end of calibrate, tr being what the branch of the calibration kind made.
\* The result: raised, the exception the call raises ("" when it returns);
\* data, the returned array; ds_info, the descriptor as the call leaves it;
\* cal, the array of the transform before the range limits; idx, the table
\* indices a brightness temperature call gathers
range_limits(data, ds_info, calibration, tr) ==
    IF calibration = "radiance"
    THEN [raised |-> "NotImplementedError", data |-> data, ds_info |-> ds_info,
          cal |-> data, idx |-> <<>>]
    ELSE [raised |-> "", data |-> limited(tr.data, calibration), ds_info |-> tr.ds_info,
          cal |-> tr.data, idx |-> tr.idx]

calibrate(self, data, ds_info, ds_name, file_key) ==
    range_limits(data, ds_info, Get(ds_info, "calibration", None),
                 transform(self, data, ds_info, ds_name, file_key,
                           Get(ds_info, "calibration", None)))

Lower(s) == CASE s = "GHI" -> "ghi" [] OTHER -> s

\* data.attrs.update of the platform, the sensor and the orbital parameters
platform_attrs(self, sat) ==
    [platform_name |-> Get(PLATFORM_NAMES, sat, sat),
     sensor |-> Lower(get(self, <<"/attr/Sensor Identification Code">>)),
     orbital_parameters |->
         [satellite_nominal_latitude  |-> get(self, <<"/attr/NOMSubSatLat">>),
          satellite_nominal_longitude |-> get(self, <<"/attr/NOMSubSatLon">>),
          satellite_nominal_altitude  |-> get(self, <<"/attr/NOMSatHeight">>)]]

\* the attributes adjust_attrs leaves on data
adjust_attrs(self, data, ds_info) ==
    Pop(Pop(Pop(Update(Update(data.attrs,
                              platform_attrs(self, get(self, <<"/attr/Satellite Name">>))),
                       ds_info),
                "FillValue"), "Intercept"), "Slope")

\* the storage key of a dataset, <<directory, id, rest of the name>>, from the
\* descriptor's file_key <<id, rest of the name>>
FileKey(dataset_id, ds_info) ==
    IF Get(ds_info, "file_key", <<dataset_id["name"], "">>)[1] = CHANS_ID
    THEN <<"Data">> \o Get(ds_info, "file_key", <<dataset_id["name"], "">>)
    ELSE IF Get(ds_info, "file_key", <<dataset_id["name"], "">>)[1] \in {SUN_ID, SAT_ID}
    THEN <<"Navigation">> \o Get(ds_info, "file_key", <<dataset_id["name"], "">>)
    ELSE <<"">> \o Get(ds_info, "file_key", <<dataset_id["name"], "">>)

\* data.rename({data.dims[-2]: 'y', data.dims[-1]: 'x'}) of an array of rank 2 or more
renamed(data) ==
    IF Len(data.dims) >= 2
    THEN [data EXCEPT !.dims = [i \in DOMAIN @ |->
              IF i = Len(@) - 1 THEN "y" ELSE IF i = Len(@) THEN "x" ELSE @[i]]]
    ELSE data

\* the end of get_dataset, c being what calibrate did on the array raw
adjusted(self, raw, c) ==
    IF c.raised # ""
    THEN [raised |-> c.raised, ds_info |-> c.ds_info]
    ELSE [raised  |-> "",
          data    |-> [c.data EXCEPT !.attrs = adjust_attrs(self, c.data, c.ds_info)],
          ds_info |-> c.ds_info,
          raw     |-> raw,
          cal     |-> c.cal,
          masked  |-> c.data,
          idx     |-> c.idx]

\* get_dataset once the storage key is resolved
load(self, ds_name, ds_info, file_key) ==
    adjusted(self, get(self, file_key),
             calibrate(self, renamed(get(self, file_key)), ds_info, ds_name, file_key))

\* the result: raised, the exception the call raises ("" when it returns);
\* data, the returned array; ds_info, the descriptor as the call leaves it;
\* and what the call went through: raw, the array fetched; cal, the array of
\* the transform; masked, the array calibrate returned; idx, the table indices
get_dataset(self, dataset_id, ds_info) ==
    load(self, dataset_id["name"], ds_info, FileKey(dataset_id, ds_info))

\* Index falling back on the first position for a value the list does not hold
Index_first(list, x) ==
    IF \E i \in DOMAIN list : list[i] = x
    THEN (CHOOSE i \in DOMAIN list : list[i] = x /\ \A j \in 1..(i - 1) : list[j] # x) - 1
    ELSE 0

\* list.index(x): the first position of x, counted from 0; -1 stands for the
\* ValueError of a list that does not hold x
Index(list, x) ==
    IF \E i \in DOMAIN list : list[i] = x
    THEN (CHOOSE i \in DOMAIN list : list[i] = x /\ \A j \in 1..(i - 1) : list[j] # x) - 1
    ELSE -1

\* pyproj's Proj(proj_dict)(lon, lat): an opaque pair of projected coordinates
Proj(proj_dict, lon, lat) ==
    << <<"x", proj_dict["lon_0"], lon, lat>>, <<"y", proj_dict["lon_0"], lon, lat>> >>

\* satpy.readers._geos_area.get_area_definition: an opaque area descriptor
get_area_definition(pdict, a_ext) == [pdict |-> pdict, a_ext |-> a_ext]

\* quotients are held as <<numerator, denominator>>
get_area_def(self, key) ==
    LET res    == key["resolution"]
        fc     == self.file_content
        c_lats == fc["/attr/Corner-Point Latitudes"]
        c_lons == fc["/attr/Corner-Point Longitudes"]
        i      == Index(RESOLUTION_LIST, res)
        b250   == {"C01"}
        b500   == {"C02", "C03", "C04", "C05", "C06"}
        obs    == self.filename_info["observation_type"]
        label  == IF key["name"] \in b250 THEN <<obs \o "_250m", "FY-4A, 250m">>
                  ELSE IF key["name"] \in b500 THEN <<obs \o "_500m", "FY-4A, 500m">>
                  ELSE <<obs \o "_2000m", "FY-4A, 2000m">>
        pdict  == [coff   |-> _COFF_list[i + 1],
                   loff   |-> -_LOFF_list[i + 1],
                   cfac   |-> _CFAC_list[i + 1],
                   lfac   |-> _LFAC_list[i + 1],
                   a      |-> fc["/attr/Semi_major_axis"] * 1000,
                   b      |-> fc["/attr/Semi_minor_axis"] * 1000,
                   h      |-> fc["/attr/NOMSatHeight"] * 1000,
                   ssp_lon |-> fc["/attr/NOMSubSatLon"],
                   nlines |-> (fc["/attr/RegLength"] - 1) + 1,
                   ncols  |-> (fc["/attr/RegWidth"] - 1) + 1,
                   col_step_ang  |-> <<fc["/attr/dSamplingAngle"], 1000000>>,
                   line_step_ang |-> <<fc["/attr/dSteppingAngle"], 1000000>>,
                   scandir |-> "N2S",
                   a_desc  |-> "AGRI " \o obs \o " area",
                   a_name  |-> label[1],
                   p_id    |-> label[2]]
        proj_dict == [a     |-> pdict.a,
                      lon_0 |-> pdict.ssp_lon,
                      h     |-> pdict.h,
                      rf    |-> <<pdict.b, pdict.a - pdict.b>>,
                      proj  |-> "geos",
                      units |-> "m",
                      sweep |-> "x"]
        o      == [n \in 1..4 |-> Proj(proj_dict, c_lons[n], c_lats[n])]
        lons   == <<o[1][1], o[2][1], o[3][1], o[4][1]>>
        lats   == <<o[1][2], o[2][2], o[3][2], o[4][2]>>
    IN  IF i = -1
        THEN [raised |-> "ValueError"]
        ELSE [raised |-> "",
              area   |-> get_area_definition(pdict, <<lons[3], lats[4], lons[4], lats[3]>>)]

----------------------------------------------------------------------------
(* The files and the requests of the model *)

\* the dataset descriptors of the reader's configuration
Descriptors ==
    { [name |-> "C01", file_key |-> <<CHANS_ID, "01">>, calibration |-> "counts", units |-> "1"],
      [name |-> "C01", file_key |-> <<CHANS_ID, "01">>, calibration |-> "radiance",
       units |-> "mW/ (m2 cm-1 sr)"],
      [name |-> "C01", file_key |-> <<CHANS_ID, "01">>, calibration |-> "reflectance", units |-> "%"],
      [name |-> "C02", file_key |-> <<CHANS_ID, "02">>, calibration |-> "reflectance", units |-> "%"],
      [name |-> "C07", file_key |-> <<CHANS_ID, "07">>, lut_key |-> "CALChannel07",
       calibration |-> "brightness_temperature", units |-> "K"],
      [name |-> "solar_zenith_angle", file_key |-> <<SUN_ID, "Zenith">>, units |-> "degrees"] }

\* the valid_range attribute of a raw array, in either order
RawRanges == {<<0, 3>>, <<300, 1>>}

\* the rows <<slope, offset>> of a coefficient table
CoefRows == {<<1, 1>>, <<2, -1>>}

CoefTables == {<<r>> : r \in CoefRows} \cup {<<r1, r2>> : r1 \in CoefRows, r2 \in CoefRows}

\* the lookup tables, and their declared valid_range
LutValues == {2, 5}

Luts == UNION {[1..n -> LutValues] : n \in 1..MaxLutLen}

LutRanges == {<<6, 4>>}

DefaultCoef == <<<<1, 1>>>>

DefaultLut == <<2>>

\* the raw arrays: digital numbers 0..MaxDN, split into blocks at chunks
RawArrays(chunkings) ==
    { [data   |-> d,
       attrs  |-> [valid_range |-> vr, FillValue |-> 65535, Slope |-> 1, Intercept |-> 0],
       dims   |-> <<"phony_dim_0", "phony_dim_1">>,
       chunks |-> c,
       err    |-> ""] : d \in [1..ArrLen -> 0..MaxDN], vr \in RawRanges, c \in chunkings }

FileAttrs ==
    [x \in {"/attr/Corner-Point Latitudes", "/attr/Corner-Point Longitudes",
            "/attr/Semi_major_axis", "/attr/Semi_minor_axis", "/attr/NOMSatHeight",
            "/attr/NOMSubSatLon", "/attr/RegLength", "/attr/RegWidth",
            "/attr/dSamplingAngle", "/attr/dSteppingAngle"} |->
        CASE x = "/attr/Corner-Point Latitudes"  -> <<50, 50, 10, 10>>
          [] x = "/attr/Corner-Point Longitudes" -> <<100, 140, 100, 140>>
          [] x = "/attr/Semi_major_axis" -> 6378
          [] x = "/attr/Semi_minor_axis" -> 6356
          [] x = "/attr/NOMSatHeight"    -> 42164
          [] x = "/attr/NOMSubSatLon"    -> 133
          [] x = "/attr/RegLength"       -> 8000
          [] x = "/attr/RegWidth"        -> 8000
          [] x = "/attr/dSamplingAngle"  -> 7
          [] x = "/attr/dSteppingAngle"  -> 7]

\* a file handler on a file that holds the raw array of descriptor d, the
\* coefficient table, the lookup table and the file attributes
Handler(d, raw, coef, lut, lutvr) ==
    [content |->
         [k \in {FileKey([name |-> d["name"]], d), cal_coef, <<"Calibration", "CALChannel07">>,
                 <<"/attr/Satellite Name">>, <<"/attr/Sensor Identification Code">>,
                 <<"/attr/NOMSubSatLat">>, <<"/attr/NOMSubSatLon">>, <<"/attr/NOMSatHeight">>} |->
             CASE k = cal_coef -> coef
               [] k = <<"Calibration", "CALChannel07">> ->
                      [data |-> lut, attrs |-> [valid_range |-> lutvr]]
               [] k = <<"/attr/Satellite Name">> -> "FY4B"
               [] k = <<"/attr/Sensor Identification Code">> -> "GHI"
               [] k = <<"/attr/NOMSubSatLat">> -> 0
               [] k = <<"/attr/NOMSubSatLon">> -> FileAttrs["/attr/NOMSubSatLon"]
               [] k = <<"/attr/NOMSatHeight">> -> FileAttrs["/attr/NOMSatHeight"]
               [] OTHER -> raw],
     file_content  |-> FileAttrs,
     filename_info |-> [observation_type |-> "REGX"]]

\* the handlers a descriptor is used with: what the descriptor's calibration
\* does not read is held at one value
Handlers(d) ==
    LET calibration == Get(d, "calibration", None)
    IN  IF calibration = "reflectance"
        THEN {Handler(d, raw, coef, DefaultLut, <<6, 4>>) :
                  raw \in RawArrays({ArrLen}), coef \in CoefTables}
        ELSE IF calibration = "brightness_temperature"
        THEN {Handler(d, raw, DefaultCoef, lut[1], lut[2]) :
                  raw \in RawArrays(0..ArrLen), lut \in Luts \X LutRanges}
        ELSE {Handler(d, raw, DefaultCoef, DefaultLut, <<6, 4>>) : raw \in RawArrays({ArrLen})}

\* the resolutions an area is asked for: the supported ones and one that is not
Resolutions == {250, 500, 1000, 2000, 4000}

----------------------------------------------------------------------------
(* The state machine *)

NoCall == [raised |-> "none"]

Init ==
    /\ descriptor \in Descriptors
    /\ fh \in Handlers(descriptor)
    /\ out = NoCall
    /\ prev = NoCall
    /\ area = NoCall

\* a caller asks for the dataset of its descriptor; the descriptor object keeps
\* what the call wrote into it
GetDataset ==
    LET r == get_dataset(fh, [name |-> descriptor["name"]], descriptor)
    IN  /\ out' = r
        /\ prev' = out
        /\ descriptor' = r.ds_info
        /\ UNCHANGED <<fh, area>>

\* a caller asks for the area of the descriptor's dataset at a resolution
GetAreaDef ==
    \E res \in Resolutions :
        /\ area' = [key |-> [name |-> descriptor["name"], resolution |-> res]] @@
                    get_area_def(fh, [name |-> descriptor["name"], resolution |-> res])
        /\ UNCHANGED <<fh, descriptor, out, prev>>

Next == GetDataset \/ GetAreaDef

Spec == Init /\ [][Next]_vars

----------------------------------------------------------------------------
(* What the claims speak of *)

Calibration == Get(descriptor, "calibration", None)

\* the last get_dataset call returned an array
Returned == out.raised = ""

\* the raw array, the lookup table and the coefficient table of the file
RawArray == get(fh, FileKey([name |-> descriptor["name"]], descriptor))

Lut == get(fh, <<"Calibration", "CALChannel07">>)

Coef == get(fh, cal_coef)

\* the LUT transform on one digital number, as the table of length n defines it
LutOf(v) == IF v <= Len(Lut.data) - 1 THEN Lut.data[v + 1] ELSE NaN

BtReturned == Returned /\ Calibration = "brightness_temperature"

----------------------------------------------------------------------------
(* Properties *)

\* C1: apply_lut gives L[v] for a digital number v <= n-1 and the appended NaN
\* for every v > n-1, element by element, however the array is split in blocks
C1_LutContract ==
    BtReturned =>
        /\ out.cal.err = ""
        /\ Len(out.cal.data) = Len(out.raw.data)
        /\ \A i \in DOMAIN out.raw.data : out.cal.data[i] = LutOf(out.raw.data[i])

\* C2: every index apply_lut gathers with lies in 0..n, the bounds of the
\* table of length n + 1 that holds the sentinel
C2_GatherInBounds ==
    BtReturned => \A i \in DOMAIN out.idx : out.idx[i] \in 0..Len(Lut.data)

\* C3: after get_dataset with a calibration other than counts every element of
\* the returned array is missing or lies within the valid_range published in
\* the array's attributes
C3_OutputWithinPublishedRange ==
    (Returned /\ Calibration # "counts" /\ out.data.err = "") =>
        \A i \in DOMAIN out.data.data :
            \/ out.data.data[i] = NaN
            \/ InRange(out.data.data[i], Min2(out.data.attrs["valid_range"]),
                                         Max2(out.data.attrs["valid_range"]))

\* C4: a radiance request raises the not-supported error, returns no array and
\* leaves the descriptor as it was, without a valid_range written into it
C4_RadianceFails ==
    (Calibration = "radiance" /\ out.raised # "none") =>
        /\ out.raised = "NotImplementedError"
        /\ "data" \notin DOMAIN out
        /\ descriptor \in Descriptors
        /\ "valid_range" \notin DOMAIN descriptor

C4_Witness == Calibration = "radiance" /\ out.raised = "NotImplementedError"

\* C5: a brightness temperature calibration gives the LUT transform of the raw
\* digital numbers, and leaves the lookup table's own valid_range in the
\* descriptor
C5_BtResult ==
    BtReturned =>
        /\ descriptor["valid_range"] = Lut.attrs["valid_range"]
        /\ out.cal.err = ""
        /\ out.cal.data = [i \in DOMAIN out.raw.data |-> LutOf(out.raw.data[i])]

\* the row of the coefficient table the claim names for the descriptor's channel
ClaimedRow ==
    IF Len(Coef) = 1 THEN Coef[1] ELSE Coef[ParseInt(descriptor["file_key"][2])]

ScaledBy(v, row) == v * row[1] + row[2]

\* C6: a reflectance calibration gives 100 * max(0, dn * slope + offset) for
\* every element, slope and offset being those of the channel's row (row 0 of
\* a table of one row), and leaves (raw valid_range * slope + offset) * 100 in
\* the descriptor, as an unordered pair
C6_Reflectance ==
    (Returned /\ Calibration = "reflectance") =>
        /\ out.cal.data = [i \in DOMAIN out.raw.data |->
               100 * (IF ScaledBy(out.raw.data[i], ClaimedRow) < 0
                      THEN 0 ELSE ScaledBy(out.raw.data[i], ClaimedRow))]
        /\ {descriptor["valid_range"][1], descriptor["valid_range"][2]}
             = {ScaledBy(out.raw.attrs["valid_range"][1], ClaimedRow) * 100,
                ScaledBy(out.raw.attrs["valid_range"][2], ClaimedRow) * 100}

\* a reflectance of the second channel of a table of two rows, with an element
\* that the scaling clamps at zero
C6_Witness ==
    /\ Returned /\ Calibration = "reflectance"
    /\ Len(Coef) = 2 /\ descriptor["file_key"][2] = "02" /\ Coef[1] # Coef[2]
    /\ \E i \in DOMAIN out.raw.data : ScaledBy(out.raw.data[i], ClaimedRow) < 0
    /\ \E i \in DOMAIN out.raw.data : ScaledBy(out.raw.data[i], ClaimedRow) > 0

\* C7: for counts, calibrate returns every raw element as it is, also outside
\* the valid_range, with _FillValue the raw array's FillValue and the declared
\* units attached, and leaves the raw array's valid_range in the descriptor
C7_CountsUnmasked ==
    (Returned /\ Calibration = "counts") =>
        /\ out.masked.data = out.raw.data
        /\ Get(out.masked.attrs, "_FillValue", NaN) = out.raw.attrs["FillValue"]
        /\ Get(out.masked.attrs, "units", "") = descriptor["units"]
        /\ descriptor["valid_range"] = out.raw.attrs["valid_range"]

\* counts of an array with an element outside its valid_range
C7_Witness ==
    /\ Returned /\ Calibration = "counts"
    /\ \E i \in DOMAIN out.raw.data :
           ~InRange(out.raw.data[i], Min2(out.raw.attrs["valid_range"]),
                                     Max2(out.raw.attrs["valid_range"]))

Supported == {250, 500, 1000, 2000}

C9_InRangeKept ==
    (Returned /\ Calibration \in {"reflectance", "brightness_temperature"}
              /\ out.cal.err = "") =>
        \A i \in DOMAIN out.cal.data :
            InRange(out.cal.data[i], Min2(descriptor["valid_range"]),
                                     Max2(descriptor["valid_range"]))
                => out.masked.data[i] # NaN

\* C10: a get_dataset call repeated on the descriptor an earlier call wrote
\* into does what the earlier call did and leaves the descriptor as it was
C10_RequestsIndependent ==
    prev.raised # "none" => (out = prev /\ descriptor = out.ds_info)

\* a second reflectance call on the same descriptor has returned
C10_Witness ==
    /\ prev.raised = "" /\ Returned /\ Calibration = "reflectance"
    /\ "valid_range" \in DOMAIN descriptor

====
